---- MODULE Spec2Model ----
(***************************************************************************)
(* Model of ghretos: the classifier of GitHub URLs and shorthands          *)
(* (src/src/ghretos/parsing.py) and its settings and resource model        *)
(* (src/src/ghretos/models.py).                                            *)
(*                                                                         *)
(* A Python str is a sequence of one-character strings, so that            *)
(* startswith, slicing, int() and the validators are computed character    *)
(* by character as the code computes them.                                 *)
(***************************************************************************)
EXTENDS Integers, Sequences, FiniteSets, TLC

VARIABLES op, url, shorthand, default_user, settings, result, pc

vars == <<op, url, shorthand, default_user, settings, result, pc>>

(***************************************************************************)
(* Bounds of the explored inputs.                                          *)
(***************************************************************************)
\* resource numbers written in the explored URLs and shorthands: 0..MaxNumber
MaxNumber == 2
\* ids written after a fragment prefix: 0..MaxId
MaxId == 1

(***************************************************************************)
(* Character classes (module string of the standard library).              *)
(***************************************************************************)
ascii_letters ==
    {"a","b","c","d","e","f","g","h","i","j","k","l","m",
     "n","o","p","q","r","s","t","u","v","w","x","y","z",
     "A","B","C","D","E","F","G","H","I","J","K","L","M",
     "N","O","P","Q","R","S","T","U","V","W","X","Y","Z"}

digits == {"0","1","2","3","4","5","6","7","8","9"}

hexdigits == digits \cup {"a","b","c","d","e","f","A","B","C","D","E","F"}

\* Characters outside string.digits that int() reads as decimal digits (Unicode
\* category Nd); ARABIC-INDIC DIGIT ONE, of value 1, is written <U+0661>.
U_0661 == "<U+0661>"

unicode_decimals == {U_0661}

\* string.whitespace; the vertical tab has no TLA+ escape and is written <VT>
whitespace == {" ", "\t", "\n", "\r", "<VT>", "\f"}

DigitVal(c) ==
    CASE c = "0" -> 0 [] c = "1" -> 1 [] c = "2" -> 2 [] c = "3" -> 3
      [] c = "4" -> 4 [] c = "5" -> 5 [] c = "6" -> 6 [] c = "7" -> 7
      [] c = "8" -> 8 [] c = "9" -> 9 [] c = U_0661 -> 1

DigitChar(d) ==
    CASE d = 0 -> "0" [] d = 1 -> "1" [] d = 2 -> "2" [] d = 3 -> "3"
      [] d = 4 -> "4" [] d = 5 -> "5" [] d = 6 -> "6" [] d = 7 -> "7"
      [] d = 8 -> "8" [] d = 9 -> "9"

(***************************************************************************)
(* str operations.                                                         *)
(***************************************************************************)
\* s.startswith(p)
StartsWith(s, p) ==
    /\ Len(p) <= Len(s)
    /\ \A i \in 1..Len(p) : s[i] = p[i]

\* s[n:]
DropPrefix(s, n) == SubSeq(s, n + 1, Len(s))

\* p in s (substring test)
Contains(s, p) ==
    \E i \in 0..(Len(s) - Len(p)) : SubSeq(s, i + 1, i + Len(p)) = p

\* str(n) for n >= 0
RECURSIVE ToStr(_)
ToStr(n) ==
    IF n < 10 THEN <<DigitChar(n)>>
    ELSE Append(ToStr(n \div 10), DigitChar(n % 10))

\* s.strip() as int() applies it: leading and trailing whitespace removed
RECURSIVE LStrip(_)
LStrip(s) ==
    IF s # <<>> /\ s[1] \in whitespace THEN LStrip(Tail(s)) ELSE s

RECURSIVE RStrip(_)
RStrip(s) ==
    IF s # <<>> /\ s[Len(s)] \in whitespace
    THEN RStrip(SubSeq(s, 1, Len(s) - 1)) ELSE s

Strip(s) == RStrip(LStrip(s))

\* The digit part of an integer literal: digits of the base, a single
\* underscore allowed between two digits.
DigitBody(s, alphabet) ==
    /\ s # <<>>
    /\ \A i \in 1..Len(s) : s[i] \in alphabet \cup {"_"}
    /\ s[1] # "_"
    /\ s[Len(s)] # "_"
    /\ \A i \in 1..(Len(s) - 1) : ~(s[i] = "_" /\ s[i + 1] = "_")

RECURSIVE DecValue(_)
DecValue(s) ==
    IF s = <<>> THEN 0
    ELSE IF s[Len(s)] = "_" THEN DecValue(SubSeq(s, 1, Len(s) - 1))
    ELSE 10 * DecValue(SubSeq(s, 1, Len(s) - 1)) + DigitVal(s[Len(s)])

Unsigned(s) == IF s # <<>> /\ s[1] \in {"+", "-"} THEN Tail(s) ELSE s

\* int(s): ok is FALSE where Python raises ValueError
PyInt(s) ==
    LET t    == Strip(s)
        body == Unsigned(t)
    IN  IF DigitBody(body, digits \cup unicode_decimals)
        THEN [ok |-> TRUE,
              val |-> IF t[1] = "-" THEN 0 - DecValue(body) ELSE DecValue(body)]
        ELSE [ok |-> FALSE, val |-> 0]

\* int(s, 16) succeeds: sign, optional 0x prefix, hexadecimal digit body
PyIntHexOk(s) ==
    LET body == Unsigned(Strip(s))
        hasPrefix == /\ Len(body) >= 2
                     /\ body[1] = "0"
                     /\ body[2] \in {"x", "X"}
        rest == DropPrefix(body, 2)
        alphabet == hexdigits \cup unicode_decimals
    IN  \/ DigitBody(body, alphabet)
        \/ /\ hasPrefix
           /\ rest # <<>>
           /\ DigitBody(IF rest[1] = "_" THEN Tail(rest) ELSE rest, alphabet)

(***************************************************************************)
(* String literals of parsing.py.                                          *)
(***************************************************************************)
S_issues == <<"i","s","s","u","e","s">>
S_pull == <<"p","u","l","l">>
S_discussions == <<"d","i","s","c","u","s","s","i","o","n","s">>
S_commits == <<"c","o","m","m","i","t","s">>
S_files == <<"f","i","l","e","s">>
S_commit == <<"c","o","m","m","i","t">>
S_releases == <<"r","e","l","e","a","s","e","s">>
S_tag == <<"t","a","g">>

\* F_issue without the closing hyphen
F_issue_nohyphen == <<"#","i","s","s","u","e">>

F_issue == <<"#","i","s","s","u","e","-">>
F_issuecomment == <<"#","i","s","s","u","e","c","o","m","m","e","n","t","-">>
F_event == <<"#","e","v","e","n","t","-">>
F_pullrequestreview == <<"#","p","u","l","l","r","e","q","u","e","s","t","r","e","v","i","e","w","-">>
\* F_discussion without the closing hyphen
F_discussion_nohyphen == <<"#","d","i","s","c","u","s","s","i","o","n">>

F_discussion == <<"#","d","i","s","c","u","s","s","i","o","n","-">>
F_discussion_r == <<"#","d","i","s","c","u","s","s","i","o","n","_","r">>
F_discussioncomment == <<"#","d","i","s","c","u","s","s","i","o","n","c","o","m","m","e","n","t","-">>
F_commitcomment == <<"#","c","o","m","m","i","t","c","o","m","m","e","n","t","-">>

(***************************************************************************)
(* Validators.                                                             *)
(***************************************************************************)
\* _valid_user refusing every hyphen
_valid_user_nohyphen(user) ==
    /\ 1 <= Len(user)
    /\ Len(user) <= 39
    /\ \A i \in 1..Len(user) : user[i] \in ascii_letters \cup digits

\* _valid_user
_valid_user(user) ==
    /\ 1 <= Len(user)
    /\ Len(user) <= 39
    /\ user[1] # "-"
    /\ user[Len(user)] # "-"
    /\ \A i \in 1..Len(user) : user[i] \in ascii_letters \cup digits \cup {"-"}

\* _valid_repository without the dot among the allowed characters
_valid_repository_nodot(repository) ==
    /\ 1 <= Len(repository)
    /\ Len(repository) <= 100
    /\ \A i \in 1..Len(repository) :
          repository[i] \in ascii_letters \cup digits \cup {"-", "_"}

\* _valid_repository
_valid_repository(repository) ==
    /\ 1 <= Len(repository)
    /\ Len(repository) <= 100
    /\ \A i \in 1..Len(repository) :
          repository[i] \in ascii_letters \cup digits \cup {"-", ".", "_"}

\* ref.split("/")
RECURSIVE SplitSlash(_)
SplitSlash(s) ==
    IF \A i \in 1..Len(s) : s[i] # "/" THEN <<s>>
    ELSE LET k == CHOOSE i \in 1..Len(s) :
                     s[i] = "/" /\ \A j \in 1..(i - 1) : s[j] # "/"
         IN  <<SubSeq(s, 1, k - 1)>> \o SplitSlash(DropPrefix(s, k))

EndsWith(s, p) ==
    /\ Len(p) <= Len(s)
    /\ SubSeq(s, Len(s) - Len(p) + 1, Len(s)) = p

\* RefPhrases with a single dot in place of the double dot
RefPhrases_singledot ==
    {<<".">>, <<"~">>, <<"^">>, <<":">>, <<"?">>, <<"*">>, <<"[">>,
     <<"\\">>, <<"@", "{">>, <<"/", "/">>, <<"/", ".">>,
     <<".", "l", "o", "c", "k", "/">>}

\* the phrases a ref must not contain
RefPhrases ==
    {<<".", ".">>, <<"~">>, <<"^">>, <<":">>, <<"?">>, <<"*">>, <<"[">>,
     <<"\\">>, <<"@", "{">>, <<"/", "/">>, <<"/", ".">>,
     <<".", "l", "o", "c", "k", "/">>}

\* _validate_ref
_validate_ref(ref) ==
    /\ ref # <<>>
    /\ ref # <<"@">>
    /\ ref[1] \notin {".", "/"}
    /\ \A phrase \in RefPhrases : ~Contains(ref, phrase)
    /\ \A i \in 1..Len(ref) :
          /\ ref[i] \notin whitespace
          /\ ~(i > 1 /\ ref[i - 1] = "." /\ ref[i] = "/")
    /\ LET comps == SplitSlash(ref)
       IN  \A k \in 1..Len(comps) :
              /\ ~EndsWith(comps[k], <<".", "l", "o", "c", "k">>)
              /\ ~EndsWith(comps[k], <<".">>)
              /\ ~StartsWith(comps[k], <<".">>)

(***************************************************************************)
(* Resource model (models.py).  A resource is a record tagged with its     *)
(* class name; the absence of a result and a raised exception are records  *)
(* of their own so that every outcome of a call can be compared.           *)
(***************************************************************************)
None == [kind |-> "None"]

\* the call did not return: a ValueError left parse_url
ValueError == [kind |-> "ValueError"]

\* sha: str | None = None of PullRequestReviewComment
NoSha == <<"<None>">>

User(login) == [kind |-> "User", login |-> login]

Repo(name, owner) == [kind |-> "Repo", name |-> name, owner |-> owner]

NumberedResource(repo, number) ==
    [kind |-> "NumberedResource", repo |-> repo, number |-> number]

Issue(repo, number) == [kind |-> "Issue", repo |-> repo, number |-> number]

IssueComment(repo, number, comment_id) ==
    [kind |-> "IssueComment", repo |-> repo, number |-> number,
     comment_id |-> comment_id]

IssueEvent(repo, number, event_id) ==
    [kind |-> "IssueEvent", repo |-> repo, number |-> number,
     event_id |-> event_id]

PullRequest(repo, number) ==
    [kind |-> "PullRequest", repo |-> repo, number |-> number]

PullRequestComment(repo, number, comment_id) ==
    [kind |-> "PullRequestComment", repo |-> repo, number |-> number,
     comment_id |-> comment_id]

PullRequestReview(repo, number, review_id) ==
    [kind |-> "PullRequestReview", repo |-> repo, number |-> number,
     review_id |-> review_id]

\* PullRequestReviewComment with the two page fields exchanged
PullRequestReviewComment_swapped(repo, number, comment_id, sha, commit_page, files_page) ==
    [kind |-> "PullRequestReviewComment", repo |-> repo, number |-> number,
     comment_id |-> comment_id, sha |-> sha,
     commit_page |-> files_page, files_page |-> commit_page]

PullRequestReviewComment(repo, number, comment_id, sha, commit_page, files_page) ==
    [kind |-> "PullRequestReviewComment", repo |-> repo, number |-> number,
     comment_id |-> comment_id, sha |-> sha,
     commit_page |-> commit_page, files_page |-> files_page]

PullRequestEvent(repo, number, event_id) ==
    [kind |-> "PullRequestEvent", repo |-> repo, number |-> number,
     event_id |-> event_id]

Discussion(repo, number) ==
    [kind |-> "Discussion", repo |-> repo, number |-> number]

DiscussionComment(repo, number, comment_id) ==
    [kind |-> "DiscussionComment", repo |-> repo, number |-> number,
     comment_id |-> comment_id]

Commit(repo, sha) == [kind |-> "Commit", repo |-> repo, sha |-> sha]

CommitComment(repo, sha, comment_id) ==
    [kind |-> "CommitComment", repo |-> repo, sha |-> sha,
     comment_id |-> comment_id]

ReleaseTag(repo, tag) == [kind |-> "ReleaseTag", repo |-> repo, tag |-> tag]

\* models.Ref, the result of the owner/repo@ref shorthand
Ref(repo, ref) == [kind |-> "Ref", repo |-> repo, ref |-> ref]

(***************************************************************************)
(* MatcherSettings.                                                        *)
(***************************************************************************)
H_github == <<"g","i","t","h","u","b",".","c","o","m">>

ResourceFlags ==
    {"issues", "issue_comments", "issue_events", "pull_requests",
     "pull_request_comments", "pull_request_reviews",
     "pull_request_review_comments", "pull_request_events", "discussions",
     "discussion_comments", "commits", "commit_comments", "releases"}

ShorthandFlags == {"shorthand", "short_repo", "short_numberables", "short_refs"}

\* MatcherSettings(): every field at its default
MatcherSettings ==
    [domains |-> <<H_github>>,
     issues |-> TRUE, issue_comments |-> TRUE, issue_events |-> TRUE,
     pull_requests |-> TRUE, pull_request_comments |-> TRUE,
     pull_request_reviews |-> TRUE, pull_request_review_comments |-> TRUE,
     pull_request_events |-> TRUE, discussions |-> TRUE,
     discussion_comments |-> TRUE, commits |-> TRUE, commit_comments |-> TRUE,
     releases |-> TRUE,
     shorthand |-> TRUE, short_repo |-> TRUE, short_numberables |-> TRUE,
     short_refs |-> TRUE,
     require_strict_type |-> TRUE]

\* none() that leaves out shorthand=False
none_keepshorthand ==
    [MatcherSettings EXCEPT
        !.issues = FALSE, !.issue_comments = FALSE, !.issue_events = FALSE,
        !.pull_requests = FALSE, !.pull_request_comments = FALSE,
        !.pull_request_reviews = FALSE,
        !.pull_request_review_comments = FALSE,
        !.pull_request_events = FALSE, !.discussions = FALSE,
        !.discussion_comments = FALSE, !.commits = FALSE,
        !.commit_comments = FALSE, !.releases = FALSE,
        !.short_repo = FALSE,
        !.short_numberables = FALSE, !.short_refs = FALSE]

\* MatcherSettings.none()
none ==
    [MatcherSettings EXCEPT
        !.issues = FALSE, !.issue_comments = FALSE, !.issue_events = FALSE,
        !.pull_requests = FALSE, !.pull_request_comments = FALSE,
        !.pull_request_reviews = FALSE,
        !.pull_request_review_comments = FALSE,
        !.pull_request_events = FALSE, !.discussions = FALSE,
        !.discussion_comments = FALSE, !.commits = FALSE,
        !.commit_comments = FALSE, !.releases = FALSE,
        !.shorthand = FALSE, !.short_repo = FALSE,
        !.short_numberables = FALSE, !.short_refs = FALSE]

\* _supported_resource_types that reads pull_request_comments for "pull"
_supported_resource_types_comments(self) ==
    (IF self.issues THEN {S_issues} ELSE {})
        \cup (IF self.pull_request_comments THEN {S_pull} ELSE {})
        \cup (IF self.discussions THEN {S_discussions} ELSE {})
        \cup (IF self.commits THEN {S_commit} ELSE {})
        \cup (IF self.releases THEN {S_releases} ELSE {})

\* MatcherSettings._supported_resource_types()
_supported_resource_types(self) ==
    (IF self.issues THEN {S_issues} ELSE {})
        \cup (IF self.pull_requests THEN {S_pull} ELSE {})
        \cup (IF self.discussions THEN {S_discussions} ELSE {})
        \cup (IF self.commits THEN {S_commit} ELSE {})
        \cup (IF self.releases THEN {S_releases} ELSE {})

(***************************************************************************)
(* The parsed URL.  yarl.URL(url) is the external URL library: the model   *)
(* keeps what parsing.py reads of it (absolute, host_port_subcomponent,    *)
(* parts, fragment).  url.path holds the path segments as written; the     *)
(* library removes dot segments when it builds an absolute URL.            *)
(***************************************************************************)
\* dot-segment removal done by yarl.URL(url) on the path of an absolute URL
RECURSIVE ResolveDots(_, _)
ResolveDots(segments, resolved) ==
    IF segments = <<>> THEN resolved
    ELSE IF Head(segments) = <<".", ".">>
         THEN ResolveDots(Tail(segments),
                          IF resolved = <<>> THEN resolved
                          ELSE SubSeq(resolved, 1, Len(resolved) - 1))
    ELSE IF Head(segments) = <<".">>
         THEN ResolveDots(Tail(segments), resolved)
    ELSE ResolveDots(Tail(segments), Append(resolved, Head(segments)))

NormalizePath(segments) ==
    IF segments # <<>> /\ segments[Len(segments)] \in {<<".">>, <<".", ".">>}
    THEN Append(ResolveDots(segments, <<>>), <<>>)
    ELSE ResolveDots(segments, <<>>)

\* parsed_url.parts: the root "/" followed by the decoded path segments
Parts(parsed_url) == <<(<<"/">>)>> \o NormalizePath(parsed_url.path)

\* path_and_fragment after pop(0): the segments, then "#" + fragment if any
PathAndFragment(parsed_url) ==
    Tail(Parts(parsed_url) \o
         (IF parsed_url.fragment # <<>>
          THEN <<(<<"#">> \o parsed_url.fragment)>> ELSE <<>>))

\* str | None returned by _get_id_from_fragment
NoneStr == <<"<None>">>

\* _get_id_from_fragment
_get_id_from_fragment(parsed_url, prefix) ==
    IF StartsWith(parsed_url.fragment, prefix)
    THEN DropPrefix(parsed_url.fragment, Len(prefix))
    ELSE NoneStr

\* truth value of a str | None
Truthy(x) == x # NoneStr /\ x # <<>>

(***************************************************************************)
(* Strict rule table.                                                      *)
(***************************************************************************)
\* match rest: of _parse_strict_numberable_url, rest = [resource_type, *rest].
\* The cases are tried in the order of the source; the second
\* ["issues", fragment] / #issue- case (lines 191-192) repeats the first and
\* is never reached.
StrictRules(parsed_url, stg, repo, resource_id, rest) ==
    LET n        == Len(rest)
        kw       == rest[1]
        frag     == rest[2]
        rid      == _get_id_from_fragment(parsed_url, <<"r">>)
        Frag(p)  == n = 2 /\ StartsWith(frag, p)
        IdOf(p)  == PyInt(DropPrefix(frag, Len(p)))
    IN
    IF rest = <<S_issues>> /\ stg.issues THEN Issue(repo, resource_id)
    ELSE IF kw = S_issues /\ Frag(F_issue) /\ stg.issues
        THEN Issue(repo, resource_id)
    ELSE IF rest = <<S_pull>> /\ stg.pull_requests
        THEN PullRequest(repo, resource_id)
    ELSE IF kw = S_pull /\ Frag(F_issue) /\ stg.pull_requests
        THEN PullRequest(repo, resource_id)
    ELSE IF rest = <<S_discussions>> /\ stg.discussions
        THEN Discussion(repo, resource_id)
    ELSE IF kw = S_discussions /\ Frag(F_discussion) /\ stg.discussions
        THEN Discussion(repo, resource_id)
    ELSE IF /\ n = 4 /\ kw = S_pull /\ rest[2] = S_commits
            /\ stg.pull_request_review_comments /\ Truthy(rid)
        THEN IF ~PyIntHexOk(rest[3]) THEN None
             ELSE IF ~PyInt(rid).ok THEN None
             ELSE PullRequestReviewComment(repo, resource_id, PyInt(rid).val,
                                           rest[3], TRUE, FALSE)
    ELSE IF /\ n = 3 /\ kw = S_pull /\ rest[2] = S_files
            /\ stg.pull_request_review_comments /\ Truthy(rid)
        THEN IF ~PyInt(rid).ok THEN None
             ELSE PullRequestReviewComment(repo, resource_id, PyInt(rid).val,
                                           NoSha, FALSE, TRUE)
    ELSE IF kw = S_issues /\ Frag(F_issuecomment) /\ stg.issue_comments
        THEN IF ~IdOf(F_issuecomment).ok THEN None
             ELSE IssueComment(repo, resource_id, IdOf(F_issuecomment).val)
    ELSE IF kw = S_pull /\ Frag(F_issuecomment) /\ stg.pull_request_comments
        THEN IF ~IdOf(F_issuecomment).ok THEN None
             ELSE PullRequestComment(repo, resource_id, IdOf(F_issuecomment).val)
    ELSE IF kw = S_issues /\ Frag(F_event) /\ stg.issue_events
        THEN IF ~IdOf(F_event).ok THEN None
             ELSE IssueEvent(repo, resource_id, IdOf(F_event).val)
    ELSE IF kw = S_pull /\ Frag(F_event) /\ stg.pull_request_events
        THEN IF ~IdOf(F_event).ok THEN None
             ELSE PullRequestEvent(repo, resource_id, IdOf(F_event).val)
    ELSE IF kw = S_pull /\ Frag(F_pullrequestreview) /\ stg.pull_request_reviews
        THEN IF ~IdOf(F_pullrequestreview).ok THEN None
             ELSE PullRequestReview(repo, resource_id,
                                    IdOf(F_pullrequestreview).val)
    ELSE IF /\ kw = S_pull /\ Frag(F_discussion_r)
            /\ stg.pull_request_review_comments
        THEN IF ~IdOf(F_discussion_r).ok THEN None
             ELSE PullRequestReviewComment(repo, resource_id,
                                           IdOf(F_discussion_r).val,
                                           NoSha, FALSE, FALSE)
    ELSE IF /\ kw = S_discussions /\ Frag(F_discussioncomment)
            /\ stg.discussion_comments
        THEN IF ~IdOf(F_discussioncomment).ok THEN None
             ELSE DiscussionComment(repo, resource_id,
                                    IdOf(F_discussioncomment).val)
    ELSE None

\* _parse_strict_numberable_url
_parse_strict_numberable_url(parsed_url, stg) ==
    LET paf == PathAndFragment(parsed_url)
    IN  IF Len(paf) < 4 \/ paf[3] \notin {S_issues, S_pull, S_discussions}
        THEN None
        ELSE IF ~_valid_user(paf[1]) \/ ~_valid_repository(paf[2]) THEN None
        ELSE IF ~PyInt(paf[4]).ok THEN None
        ELSE StrictRules(parsed_url, stg, Repo(paf[2], paf[1]),
                         PyInt(paf[4]).val,
                         <<paf[3]>> \o SubSeq(paf, 5, Len(paf)))

(***************************************************************************)
(* Loose rule table.                                                       *)
(***************************************************************************)
\* LooseIssueComment mapping #issuecomment- under /discussions/ to a
\* discussion comment
LooseIssueComment_bykeyword(stg, repo, resource_type, resource_id, comment_id) ==
    IF resource_type = S_pull
    THEN IF stg.pull_request_comments
         THEN PullRequestComment(repo, resource_id, comment_id) ELSE None
    ELSE IF resource_type = S_discussions
    THEN IF stg.discussion_comments
         THEN DiscussionComment(repo, resource_id, comment_id) ELSE None
    ELSE IF stg.issue_comments
         THEN IssueComment(repo, resource_id, comment_id) ELSE None

\* the #issuecomment- rule of the loose table, once the id is a number
LooseIssueComment(stg, repo, resource_type, resource_id, comment_id) ==
    IF resource_type = S_pull
    THEN IF stg.pull_request_comments
         THEN PullRequestComment(repo, resource_id, comment_id) ELSE None
    ELSE IF stg.issue_comments
         THEN IssueComment(repo, resource_id, comment_id) ELSE None

\* match rest: of _parse_loose_numberable_url
LooseRules(parsed_url, stg, repo, resource_type, resource_id, rest) ==
    LET n        == Len(rest)
        frag     == rest[1]
        rid      == _get_id_from_fragment(parsed_url, <<"r">>)
        Frag(p)  == n = 1 /\ StartsWith(frag, p)
        IdOf(p)  == PyInt(DropPrefix(frag, Len(p)))
    IN
    IF rest = <<>>
    THEN IF resource_type = S_issues /\ stg.issues
            THEN Issue(repo, resource_id)
         ELSE IF resource_type = S_pull /\ stg.pull_requests
            THEN PullRequest(repo, resource_id)
         ELSE IF resource_type = S_discussions /\ stg.discussions
            THEN Discussion(repo, resource_id)
         ELSE None
    ELSE IF Frag(F_issuecomment)
    THEN IF ~IdOf(F_issuecomment).ok THEN None
         ELSE LooseIssueComment(stg, repo, resource_type, resource_id,
                                IdOf(F_issuecomment).val)
    ELSE IF Frag(F_discussioncomment) /\ stg.discussion_comments
    THEN IF ~IdOf(F_discussioncomment).ok THEN None
         ELSE DiscussionComment(repo, resource_id,
                                IdOf(F_discussioncomment).val)
    ELSE IF Frag(F_issue) \/ Frag(F_discussion)
    THEN IF StartsWith(frag, F_issue)
         THEN IF resource_type = S_pull
              THEN IF stg.pull_requests
                   THEN PullRequest(repo, resource_id) ELSE None
              ELSE IF stg.issues THEN Issue(repo, resource_id) ELSE None
         ELSE IF stg.discussions THEN Discussion(repo, resource_id) ELSE None
    ELSE IF /\ Frag(F_pullrequestreview) \/ Frag(F_discussion_r)
            /\ stg.pull_request_review_comments
    THEN IF StartsWith(frag, F_pullrequestreview)
         THEN IF ~IdOf(F_pullrequestreview).ok THEN None
              ELSE PullRequestReview(repo, resource_id,
                                     IdOf(F_pullrequestreview).val)
         ELSE IF ~IdOf(F_discussion_r).ok THEN None
              ELSE PullRequestReviewComment(repo, resource_id,
                                            IdOf(F_discussion_r).val,
                                            NoSha, FALSE, FALSE)
    ELSE IF /\ n = 3 /\ rest[1] = S_commits
            /\ stg.pull_request_review_comments
            /\ resource_type = S_pull /\ Truthy(rid)
    THEN IF ~PyIntHexOk(rest[2]) THEN None
         \* comment_id=int(fragment) stands outside any try
         ELSE IF ~PyInt(rid).ok THEN ValueError
         ELSE PullRequestReviewComment(repo, resource_id, PyInt(rid).val,
                                       rest[2], TRUE, FALSE)
    ELSE IF /\ n = 2 /\ rest[1] = S_files
            /\ stg.pull_request_review_comments
            /\ resource_type = S_pull /\ Truthy(rid)
    THEN IF ~PyInt(rid).ok THEN ValueError
         ELSE PullRequestReviewComment(repo, resource_id, PyInt(rid).val,
                                       NoSha, FALSE, TRUE)
    ELSE None

\* _parse_loose_numberable_url
_parse_loose_numberable_url(parsed_url, stg) ==
    LET paf == PathAndFragment(parsed_url)
    IN  IF Len(paf) < 4 \/ paf[3] \notin {S_issues, S_pull, S_discussions}
        THEN None
        ELSE IF ~_valid_user(paf[1]) \/ ~_valid_repository(paf[2]) THEN None
        ELSE IF ~PyInt(paf[4]).ok THEN None
        ELSE LooseRules(parsed_url, stg, Repo(paf[2], paf[1]), paf[3],
                        PyInt(paf[4]).val, SubSeq(paf, 5, Len(paf)))

(***************************************************************************)
(* The two rule tables case by case: for each case of a match statement    *)
(* whether its pattern and guard are satisfied, and what its body returns.  *)
(***************************************************************************)
\* a case of a match statement: applies is pattern and guard, result the
\* value its body returns
Case(applies, res) ==
    [applies |-> applies, result |-> IF applies THEN res ELSE None]

\* try: x = int(...) except ValueError: return None, followed by return res
WithId(id, res) == IF ~id.ok THEN None ELSE res

\* the cases of match rest: in _parse_strict_numberable_url in source order,
\* without the closing case _
StrictCases == 1..16

StrictCase(i, parsed_url, stg, repo, resource_id, rest) ==
    LET n        == Len(rest)
        kw       == rest[1]
        frag     == rest[2]
        rid      == _get_id_from_fragment(parsed_url, <<"r">>)
        Frag(k, p) == n = 2 /\ kw = k /\ StartsWith(frag, p)
        IdOf(p)  == PyInt(DropPrefix(frag, Len(p)))
    IN
    CASE i = 1 -> Case(rest = <<S_issues>> /\ stg.issues,
                       Issue(repo, resource_id))
      [] i = 2 -> Case(Frag(S_issues, F_issue) /\ stg.issues,
                       Issue(repo, resource_id))
      [] i = 3 -> Case(rest = <<S_pull>> /\ stg.pull_requests,
                       PullRequest(repo, resource_id))
      [] i = 4 -> Case(Frag(S_pull, F_issue) /\ stg.pull_requests,
                       PullRequest(repo, resource_id))
      [] i = 5 -> Case(rest = <<S_discussions>> /\ stg.discussions,
                       Discussion(repo, resource_id))
      [] i = 6 -> Case(Frag(S_discussions, F_discussion) /\ stg.discussions,
                       Discussion(repo, resource_id))
      [] i = 7 -> Case(/\ n = 4 /\ kw = S_pull /\ rest[2] = S_commits
                       /\ stg.pull_request_review_comments /\ Truthy(rid),
                       IF ~PyIntHexOk(rest[3]) THEN None
                       ELSE WithId(PyInt(rid),
                               PullRequestReviewComment(repo, resource_id,
                                   PyInt(rid).val, rest[3], TRUE, FALSE)))
      [] i = 8 -> Case(/\ n = 3 /\ kw = S_pull /\ rest[2] = S_files
                       /\ stg.pull_request_review_comments /\ Truthy(rid),
                       WithId(PyInt(rid),
                           PullRequestReviewComment(repo, resource_id,
                               PyInt(rid).val, NoSha, FALSE, TRUE)))
      [] i = 9 -> Case(Frag(S_issues, F_issue) /\ stg.issues,
                       Issue(repo, resource_id))
      [] i = 10 -> Case(Frag(S_issues, F_issuecomment) /\ stg.issue_comments,
                        WithId(IdOf(F_issuecomment),
                            IssueComment(repo, resource_id,
                                         IdOf(F_issuecomment).val)))
      [] i = 11 -> Case(Frag(S_pull, F_issuecomment)
                            /\ stg.pull_request_comments,
                        WithId(IdOf(F_issuecomment),
                            PullRequestComment(repo, resource_id,
                                               IdOf(F_issuecomment).val)))
      [] i = 12 -> Case(Frag(S_issues, F_event) /\ stg.issue_events,
                        WithId(IdOf(F_event),
                            IssueEvent(repo, resource_id, IdOf(F_event).val)))
      [] i = 13 -> Case(Frag(S_pull, F_event) /\ stg.pull_request_events,
                        WithId(IdOf(F_event),
                            PullRequestEvent(repo, resource_id,
                                             IdOf(F_event).val)))
      [] i = 14 -> Case(Frag(S_pull, F_pullrequestreview)
                            /\ stg.pull_request_reviews,
                        WithId(IdOf(F_pullrequestreview),
                            PullRequestReview(repo, resource_id,
                                IdOf(F_pullrequestreview).val)))
      [] i = 15 -> Case(Frag(S_pull, F_discussion_r)
                            /\ stg.pull_request_review_comments,
                        WithId(IdOf(F_discussion_r),
                            PullRequestReviewComment(repo, resource_id,
                                IdOf(F_discussion_r).val, NoSha, FALSE, FALSE)))
      [] i = 16 -> Case(Frag(S_discussions, F_discussioncomment)
                            /\ stg.discussion_comments,
                        WithId(IdOf(F_discussioncomment),
                            DiscussionComment(repo, resource_id,
                                IdOf(F_discussioncomment).val)))

\* the cases of match rest: in _parse_loose_numberable_url in source order,
\* without the closing case _
LooseCases == 1..7

LooseCase(i, parsed_url, stg, repo, resource_type, resource_id, rest) ==
    LET n        == Len(rest)
        frag     == rest[1]
        rid      == _get_id_from_fragment(parsed_url, <<"r">>)
        Frag(p)  == n = 1 /\ StartsWith(frag, p)
        IdOf(p)  == PyInt(DropPrefix(frag, Len(p)))
    IN
    CASE i = 1 -> Case(rest = <<>>,
                       IF resource_type = S_issues
                       THEN IF stg.issues THEN Issue(repo, resource_id)
                            ELSE None
                       ELSE IF resource_type = S_pull
                       THEN IF stg.pull_requests
                            THEN PullRequest(repo, resource_id) ELSE None
                       ELSE IF stg.discussions
                            THEN Discussion(repo, resource_id) ELSE None)
      [] i = 2 -> Case(Frag(F_issuecomment),
                       WithId(IdOf(F_issuecomment),
                           IF resource_type = S_pull
                           THEN IF stg.pull_request_comments
                                THEN PullRequestComment(repo, resource_id,
                                         IdOf(F_issuecomment).val)
                                ELSE None
                           ELSE IF stg.issue_comments
                                THEN IssueComment(repo, resource_id,
                                         IdOf(F_issuecomment).val)
                                ELSE None))
      [] i = 3 -> Case(stg.discussion_comments /\ Frag(F_discussioncomment),
                       WithId(IdOf(F_discussioncomment),
                           DiscussionComment(repo, resource_id,
                               IdOf(F_discussioncomment).val)))
      [] i = 4 -> Case(Frag(F_issue) \/ Frag(F_discussion),
                       IF StartsWith(frag, F_issue)
                       THEN IF resource_type = S_pull
                            THEN IF stg.pull_requests
                                 THEN PullRequest(repo, resource_id) ELSE None
                            ELSE IF stg.issues THEN Issue(repo, resource_id)
                                 ELSE None
                       ELSE IF stg.discussions
                            THEN Discussion(repo, resource_id) ELSE None)
      [] i = 5 -> Case(/\ stg.pull_request_review_comments
                       /\ Frag(F_pullrequestreview) \/ Frag(F_discussion_r),
                       IF StartsWith(frag, F_pullrequestreview)
                       THEN WithId(IdOf(F_pullrequestreview),
                                PullRequestReview(repo, resource_id,
                                    IdOf(F_pullrequestreview).val))
                       ELSE WithId(IdOf(F_discussion_r),
                                PullRequestReviewComment(repo, resource_id,
                                    IdOf(F_discussion_r).val,
                                    NoSha, FALSE, FALSE)))
      [] i = 6 -> Case(/\ n = 3 /\ rest[1] = S_commits
                       /\ stg.pull_request_review_comments
                       /\ resource_type = S_pull /\ Truthy(rid),
                       IF ~PyIntHexOk(rest[2]) THEN None
                       ELSE IF ~PyInt(rid).ok THEN ValueError
                       ELSE PullRequestReviewComment(repo, resource_id,
                                PyInt(rid).val, rest[2], TRUE, FALSE))
      [] i = 7 -> Case(/\ n = 2 /\ rest[1] = S_files
                       /\ stg.pull_request_review_comments
                       /\ resource_type = S_pull /\ Truthy(rid),
                       IF ~PyInt(rid).ok THEN ValueError
                       ELSE PullRequestReviewComment(repo, resource_id,
                                PyInt(rid).val, NoSha, FALSE, TRUE))

(***************************************************************************)
(* parse_url.                                                              *)
(***************************************************************************)
\* InDomains accepting every host that ends with a listed domain
InDomains_suffix(host_port, domains) ==
    \E i \in 1..Len(domains) : EndsWith(host_port, domains[i])

\* host_port_subcomponent in settings.domains
InDomains(host_port, domains) ==
    \E i \in 1..Len(domains) : domains[i] = host_port

\* match rest: of parse_url, below a valid owner and repository; the source
\* lists the three cases twice (lines 457-469 and 470-482)
\* CommitAndReleaseRules with the commit rule not gated by settings.commits
CommitAndReleaseRules_ungated(stg, repo, rest) ==
    LET n == Len(rest)
    IN
    IF n = 2 /\ rest[1] = S_commit
    THEN Commit(repo, rest[2])
    ELSE IF /\ n = 3 /\ rest[1] = S_commit /\ stg.commit_comments
            /\ StartsWith(rest[3], F_commitcomment)
    THEN LET id == PyInt(DropPrefix(rest[3], Len(F_commitcomment)))
         IN  IF ~id.ok THEN None ELSE CommitComment(repo, rest[2], id.val)
    ELSE IF /\ n = 3 /\ rest[1] = S_releases /\ rest[2] = S_tag
            /\ stg.releases
    THEN ReleaseTag(repo, rest[3])
    ELSE None

CommitAndReleaseRules(stg, repo, rest) ==
    LET n == Len(rest)
    IN
    IF n = 2 /\ rest[1] = S_commit /\ stg.commits
    THEN Commit(repo, rest[2])
    ELSE IF /\ n = 3 /\ rest[1] = S_commit /\ stg.commit_comments
            /\ StartsWith(rest[3], F_commitcomment)
    THEN LET id == PyInt(DropPrefix(rest[3], Len(F_commitcomment)))
         IN  IF ~id.ok THEN None ELSE CommitComment(repo, rest[2], id.val)
    ELSE IF /\ n = 3 /\ rest[1] = S_releases /\ rest[2] = S_tag
            /\ stg.releases
    THEN ReleaseTag(repo, rest[3])
    ELSE None

\* NumberableResult with the mode test inverted
NumberableResult_inverted(u, stg) ==
    IF ~stg.require_strict_type
    THEN _parse_strict_numberable_url(u, stg)
    ELSE _parse_loose_numberable_url(u, stg)

\* the rule table selected by settings.require_strict_type
NumberableResult(u, stg) ==
    IF stg.require_strict_type
    THEN _parse_strict_numberable_url(u, stg)
    ELSE _parse_loose_numberable_url(u, stg)

\* parse_url; a ValueError raised by the loose table leaves the call
parse_url(u, stg) ==
    IF ~u.absolute \/ ~InDomains(u.host_port, stg.domains) THEN None
    ELSE
    LET paf == PathAndFragment(u)
        res == NumberableResult(u, stg)
    IN  IF res # None THEN res
        ELSE IF paf = <<>> \/ paf = <<(<<>>)>> THEN None
        ELSE IF ~_valid_user(paf[1]) THEN None
        ELSE IF Len(paf) = 1 THEN User(paf[1])
        ELSE IF ~_valid_repository(paf[2]) THEN None
        ELSE IF Len(paf) = 2 THEN Repo(paf[2], paf[1])
        ELSE CommitAndReleaseRules(stg, Repo(paf[2], paf[1]),
                                   SubSeq(paf, 3, Len(paf)))

(***************************************************************************)
(* parse_shorthand.                                                        *)
(***************************************************************************)
\* default_user=None
NoUser == <<"<None>">>

\* ShorthandChars without the dot
ShorthandChars_nodot == ascii_letters \cup digits \cup {"-", "_"}

\* the characters parse_shorthand accepts in the user and the repo part
ShorthandChars == ascii_letters \cup digits \cup {"-", ".", "_"}

\* index of the first character of s that is in cs, 0 if there is none
FirstIn(s, cs) ==
    IF \A i \in 1..Len(s) : s[i] \notin cs THEN 0
    ELSE CHOOSE i \in 1..Len(s) : s[i] \in cs /\ \A j \in 1..(i - 1) : s[j] \notin cs

\* ShorthandNumbered gated by short_repo
ShorthandNumbered_wrongflag(stg, repo, ref) ==
    LET number == PyInt(ref)
    IN  IF ~number.ok THEN None
        ELSE IF number.val < 1 THEN None
        ELSE IF stg.short_repo
             THEN NumberedResource(repo, number.val)
             ELSE None

\* the branch of parse_shorthand for ref_type "#"
ShorthandNumbered(stg, repo, ref) ==
    LET number == PyInt(ref)
    IN  IF ~number.ok THEN None
        ELSE IF number.val < 1 THEN None
        ELSE IF stg.short_numberables
             THEN NumberedResource(repo, number.val)
             ELSE None

\* the branch of parse_shorthand for ref_type "@"
ShorthandRef(stg, repo, ref) ==
    IF ~_validate_ref(ref) THEN None
    ELSE IF stg.short_refs THEN Ref(repo, ref)
    ELSE None

\* parse_shorthand
parse_shorthand(text, duser, stg) ==
    LET slash    == FirstIn(text, {"/"})
        user     == IF slash > 0 THEN SubSeq(text, 1, slash - 1) ELSE duser
        sh       == IF slash > 0 THEN DropPrefix(text, slash) ELSE text
        mark     == FirstIn(sh, {"#", "@"})
        repo     == IF mark > 0 THEN SubSeq(sh, 1, mark - 1) ELSE sh
        ref      == DropPrefix(sh, Len(repo) + 1)
    IN
    IF ~stg.shorthand THEN None
    ELSE IF slash = 0 /\ duser = NoUser THEN None
    ELSE IF \E i \in 1..Len(user) : user[i] \notin ShorthandChars THEN None
    ELSE IF \E i \in 1..Len(repo) : repo[i] \notin ShorthandChars THEN None
    ELSE IF mark = 0
        THEN IF stg.short_repo THEN Repo(repo, user) ELSE None
    ELSE IF sh[mark] = "#" THEN ShorthandNumbered(stg, Repo(repo, user), ref)
    ELSE ShorthandRef(stg, Repo(repo, user), ref)

(***************************************************************************)
(* The explored inputs.                                                    *)
(***************************************************************************)
H_api_github == <<"a","p","i",".","g","i","t","h","u","b",".","c","o","m">>
H_notgithub == <<"n","o","t","g","i","t","h","u","b",".","c","o","m">>
H_gitlab == <<"g","i","t","l","a","b",".","c","o","m">>
H_enterprise == <<"g","h","e",".","e","x","a","m","p","l","e",":","8","4","4","3">>

\* number segments: the decimal numbers 0..MaxNumber, a negative number,
\* a text that is no number, a number written with a non-ASCII digit
NumberTexts ==
    {ToStr(n) : n \in 0..MaxNumber} \cup {<<"-", "5">>, <<"x">>, <<U_0661>>}

\* ids after a fragment prefix: the decimal numbers 0..MaxId, a text without
\* digits, the empty text, a number written with a non-ASCII digit
IdTexts ==
    {ToStr(n) : n \in 0..MaxId} \cup {<<"a", "b", "c">>, <<>>, <<U_0661>>}

\* fragment prefixes, without the leading #
FragmentPrefixes ==
    {Tail(F_issue), Tail(F_issuecomment), Tail(F_event),
     Tail(F_pullrequestreview), Tail(F_discussion), Tail(F_discussion_r),
     Tail(F_discussioncomment), Tail(F_commitcomment), <<"r">>,
     <<"w","h","a","t","e","v","e","r">>}

Fragments == {<<>>} \cup {p \o i : p \in FragmentPrefixes, i \in IdTexts}

Keywords == {S_issues, S_pull, S_discussions}

O_o == <<"o">>
R_r == <<"r">>

Owners == {O_o, <<"a", "-", "b">>, <<"-", "o">>, <<".">>}

Repos == {R_r, <<"r", ".", "x">>, <<".">>, <<".", ".">>, <<"r", "~">>}

SHA_hex == <<"a", "b", "1">>
SHA_prefixed == <<"0", "x", "1", "f">>
SHA_nonhex == <<"x", "y", "z", "1", "2", "3">>

\* what follows /{keyword}/{number} in the path
SubPages ==
    {<<S_files>>, <<S_commits, SHA_hex>>, <<S_commits, SHA_prefixed>>,
     <<S_commits, SHA_nonhex>>, <<S_commits>>, <<S_files, <<"e", "x">> >>,
     <<S_commits, SHA_hex, <<"e", "x">> >>, << <<"i", "n", "v">> >>}

SubPageFragments ==
    {<<>>, <<"r">>, <<"r", "a", "b", "c">>, Tail(F_issuecomment) \o ToStr(1)}
        \cup {<<"r">> \o ToStr(n) : n \in 0..MaxId}

GitHubUrl(path, fragment) ==
    [absolute |-> TRUE, host_port |-> H_github, path |-> path,
     fragment |-> fragment]

UrlsFragment ==
    {GitHubUrl(<<O_o, R_r, k, n>>, f) :
        k \in Keywords, n \in NumberTexts, f \in Fragments}

UrlsSubPage ==
    {GitHubUrl(<<O_o, R_r, k, ToStr(1)>> \o t, f) :
        k \in Keywords, t \in SubPages, f \in SubPageFragments}

UrlsCommit ==
    {GitHubUrl(<<O_o, R_r>> \o t, f) :
        t \in {<<S_commit, SHA_hex>>, <<S_commit, SHA_nonhex>>, <<S_commit>>,
               <<S_releases, S_tag, <<"v", "1">> >>, <<S_releases, S_tag>>,
               <<S_releases>>, << <<"t", "r", "e", "e">>, <<"m">> >>,
               << <<"b", "l", "o", "b">>, <<"m">> >>, << <<"w", "i", "k", "i">> >>},
        f \in {<<>>} \cup {Tail(F_commitcomment) \o i : i \in IdTexts}}

UrlsNames ==
    {GitHubUrl(p, <<>>) : p \in {<<>>, << <<>> >>} \cup {<<o>> : o \in Owners}}
        \cup {GitHubUrl(<<o, r>> \o t, <<>>) :
                 o \in Owners, r \in Repos,
                 t \in {<<>>} \cup {<<k, ToStr(n)>> : k \in Keywords, n \in 1..MaxNumber}}
        \cup {GitHubUrl(p, Tail(F_issue) \o ToStr(1)) :
                 p \in {<<O_o>>, <<O_o, R_r>>}}

UrlsHost ==
    {[absolute |-> a.abs, host_port |-> a.host, path |-> p, fragment |-> <<>>] :
        a \in {[abs |-> TRUE, host |-> H_api_github],
               [abs |-> TRUE, host |-> H_notgithub],
               [abs |-> TRUE, host |-> H_gitlab],
               [abs |-> TRUE, host |-> H_enterprise],
               [abs |-> FALSE, host |-> NoneStr]},
        p \in {<<O_o>>, <<O_o, R_r>>, <<O_o, R_r, S_issues, ToStr(1)>>,
               <<O_o, R_r, S_commit, SHA_hex>>}}

Urls == UrlsFragment \cup UrlsSubPage \cup UrlsCommit \cup UrlsNames \cup UrlsHost

\* settings with exactly the flag f switched off
Without(f) == [MatcherSettings EXCEPT ![f] = FALSE]

WithMode(stg, strict) == [stg EXCEPT !.require_strict_type = strict]

UrlSettings ==
    {WithMode(b, m) :
        b \in {MatcherSettings, none,
               [MatcherSettings EXCEPT !.domains = <<H_github, H_enterprise>>]}
              \cup {Without(f) : f \in ResourceFlags},
        m \in BOOLEAN}

\* refs after the @ of a shorthand: valid ones, with and without a slash,
\* and ones that break a rule of _validate_ref
RefTexts ==
    {<<"v", "1">>, <<"v", "1", ".", "0">>, <<"a", "/", "b">>,
     <<"f", "-", "x", "/", "y", "_", "z">>, <<"a", "/">>, <<>>, <<"@">>,
     <<"a", ".", ".", "b">>, <<".", "a">>, <<"a", " ", "b">>,
     <<"x", ".", "l", "o", "c", "k">>, <<"a", "/", ".", "b">>,
     <<"a", ".", "/", "b">>, <<"a", "/", "/", "b">>,
     <<"x", ".", "l", "o", "c", "k", "/", "y">>, <<"a", "~">>,
     <<"a", ".">>, <<"/", "a">>, <<"a", "^">>, <<"a", ":">>, <<"a", "?">>,
     <<"a", "*">>, <<"a", "[">>, <<"a", "\\">>, <<"a", "@", "{">>,
     <<"a", "\t">>}

\* an owner of 40 characters and a repository name of 101 characters
LongOwner == [i \in 1..40 |-> "a"]

LongRepo == [i \in 1..101 |-> "r"]

\* the text before the first slash of a shorthand
ShorthandOwnerTexts ==
    {O_o, <<"a", "-", "b">>, <<>>, <<"o", "!">>, <<"-", "o">>, <<"o", "-">>,
     <<"a", ".", "b">>, <<"a", "_", "b">>, LongOwner}

\* the repository part of a shorthand
ShorthandRepoTexts ==
    {R_r, <<"r", ".", "x">>, <<".">>, <<>>, <<"r", "~">>, LongRepo}

\* what follows the repository part: nothing, # and a number text, @ and a ref
ShorthandSuffixes ==
    {<<>>} \cup {<<"#">> \o n : n \in NumberTexts \cup {<<>>, <<"@">>}}
           \cup {<<"@">> \o t : t \in RefTexts}

ShorthandTexts ==
    {o \o r \o x :
        o \in {<<>>} \cup {t \o <<"/">> : t \in ShorthandOwnerTexts},
        r \in ShorthandRepoTexts,
        x \in ShorthandSuffixes}

DefaultUsers == {NoUser, <<"u">>, <<"a", "-", "b">>, <<"u", "!">>}

ShorthandSettings ==
    {MatcherSettings, none} \cup {Without(f) : f \in ShorthandFlags}

(***************************************************************************)
(* The calls.                                                              *)
(***************************************************************************)
\* no call has returned yet
Pending == [kind |-> "pending"]

\* url of a parse_shorthand call
NoUrl == [absolute |-> FALSE, host_port |-> NoneStr, path |-> <<>>, fragment |-> <<>>]

Init ==
    /\ pc = "call"
    /\ result = Pending
    /\ \/ /\ op = "parse_url"
          /\ url \in Urls
          /\ settings \in UrlSettings
          /\ shorthand = <<>>
          /\ default_user = NoUser
       \/ /\ op = "parse_shorthand"
          /\ url = NoUrl
          /\ shorthand \in ShorthandTexts
          /\ default_user \in DefaultUsers
          /\ settings \in ShorthandSettings

\* SettingsAfterCall that switches the mode flag to strict
SettingsAfterCall_strict(stg) == [stg EXCEPT !.require_strict_type = TRUE]

\* the settings object after a call: the parsers only read its fields and
\* assign none of them
SettingsAfterCall(stg) == stg

\* a call of parse_url(url, settings=settings)
ParseUrl ==
    /\ pc = "call"
    /\ op = "parse_url"
    /\ result' = parse_url(url, settings)
    /\ settings' = SettingsAfterCall(settings)
    /\ pc' = "done"
    /\ UNCHANGED <<op, url, shorthand, default_user>>

\* a call of parse_shorthand(shorthand, default_user=default_user, settings=settings)
ParseShorthand ==
    /\ pc = "call"
    /\ op = "parse_shorthand"
    /\ result' = parse_shorthand(shorthand, default_user, settings)
    /\ settings' = SettingsAfterCall(settings)
    /\ pc' = "done"
    /\ UNCHANGED <<op, url, shorthand, default_user>>

\* the same call once more, with the same input and the same settings object
Repeat ==
    /\ pc \in {"done", "again"}
    /\ result' = IF op = "parse_url" THEN parse_url(url, settings)
                 ELSE parse_shorthand(shorthand, default_user, settings)
    /\ settings' = SettingsAfterCall(settings)
    /\ pc' = "again"
    /\ UNCHANGED <<op, url, shorthand, default_user>>

Next == ParseUrl \/ ParseShorthand \/ Repeat

Spec == Init /\ [][Next]_vars

(***************************************************************************)
(* Properties.                                                             *)
(***************************************************************************)
\* a parse_url call has returned or raised
UrlDone == pc = "done" /\ op = "parse_url"

\* the path segments of the URL as the classifier sees them
Segments == NormalizePath(url.path)

\* every resource-kind flag is on
AllFlagsOn == \A f \in ResourceFlags : settings[f]

\* the text is the decimal notation of a number in lo..hi
IsNumberIn(text, lo, hi) == \E n \in lo..hi : text = ToStr(n)

\* username rule: 1 to 39 letters, digits or hyphens, no hyphen first or last
IsUsername(text) ==
    /\ Len(text) \in 1..39
    /\ \A i \in 1..Len(text) : text[i] \in ascii_letters \cup digits \cup {"-"}
    /\ text[1] # "-"
    /\ text[Len(text)] # "-"

\* repository-name rule: 1 to 100 letters, digits, hyphens, dots, underscores
IsRepositoryName(text) ==
    /\ Len(text) \in 1..100
    /\ \A i \in 1..Len(text) :
          text[i] \in ascii_letters \cup digits \cup {"-", ".", "_"}

\* the URL is /{owner}/{repo}/{keyword}/{number}... with a valid owner and
\* repository and a number >= 1
NumberedUrl ==
    /\ Len(Segments) >= 4
    /\ IsUsername(Segments[1])
    /\ IsRepositoryName(Segments[2])
    /\ Segments[3] \in Keywords
    /\ IsNumberIn(Segments[4], 1, MaxNumber)

IssueFamily == {"Issue", "IssueComment", "IssueEvent"}

PullFamily ==
    {"PullRequest", "PullRequestComment", "PullRequestReview",
     "PullRequestReviewComment", "PullRequestEvent"}

DiscussionFamily == {"Discussion", "DiscussionComment"}

FamilyOf(keyword) ==
    IF keyword = S_issues THEN IssueFamily
    ELSE IF keyword = S_pull THEN PullFamily
    ELSE DiscussionFamily

\* fragment prefixes (without #) that belong to another family than the keyword
ForeignPrefixes(keyword) ==
    IF keyword = S_issues
    THEN {Tail(F_discussioncomment), Tail(F_discussion),
          Tail(F_pullrequestreview), Tail(F_discussion_r)}
    ELSE IF keyword = S_pull
    THEN {Tail(F_discussioncomment), Tail(F_discussion)}
    ELSE {Tail(F_issue), Tail(F_issuecomment), Tail(F_event),
          Tail(F_pullrequestreview), Tail(F_discussion_r)}

\* C1: in strict mode a URL whose third path segment is issues, pull or
\* discussions only ever yields a resource of that keyword's family, and a
\* fragment of another family yields no match even with a well-formed id.
C1_StrictFamilyAgrees ==
    (/\ UrlDone
     /\ settings.require_strict_type
     /\ Len(Segments) >= 3
     /\ Segments[3] \in Keywords)
    => /\ result = None \/ result.kind \in FamilyOf(Segments[3])
       /\ (\E p \in ForeignPrefixes(Segments[3]) : StartsWith(url.fragment, p))
             => result = None

\* C1 witness: /issues/{n}#discussioncomment-{id} with a numeric id was
\* parsed in strict mode with every flag on, and gave no match
C1_Witness ==
    /\ UrlDone
    /\ settings.require_strict_type
    /\ AllFlagsOn
    /\ NumberedUrl
    /\ Len(Segments) = 4
    /\ Segments[3] = S_issues
    /\ url.fragment = Tail(F_discussioncomment) \o ToStr(1)
    /\ url.host_port = H_github
    /\ result = None

\* the resource the fragment-priority table gives for a keyword and a prefix
LooseExpected(keyword, prefix, repo, number, id) ==
    IF prefix = Tail(F_issue)
    THEN IF keyword = S_pull THEN PullRequest(repo, number)
         ELSE Issue(repo, number)
    ELSE IF prefix = Tail(F_discussion) THEN Discussion(repo, number)
    ELSE IF prefix = Tail(F_pullrequestreview)
    THEN PullRequestReview(repo, number, id)
    ELSE IF prefix = Tail(F_discussion_r)
    THEN PullRequestReviewComment(repo, number, id, NoSha, FALSE, FALSE)
    ELSE IF prefix = Tail(F_issuecomment)
    THEN IF keyword = S_pull THEN PullRequestComment(repo, number, id)
         ELSE IssueComment(repo, number, id)
    ELSE DiscussionComment(repo, number, id)

LoosePrefixes ==
    {Tail(F_issue), Tail(F_discussion), Tail(F_pullrequestreview),
     Tail(F_discussion_r), Tail(F_issuecomment), Tail(F_discussioncomment)}

\* C2: in loose mode with every flag on, /{owner}/{repo}/{k}/{n}#{prefix}{id}
\* with n >= 1 and id >= 1 is classified by its fragment prefix.
C2_LooseFragmentPriority ==
    (/\ UrlDone
     /\ ~settings.require_strict_type
     /\ AllFlagsOn
     /\ url.absolute
     /\ InDomains(url.host_port, settings.domains)
     /\ NumberedUrl
     /\ Len(Segments) = 4)
    => \A p \in LoosePrefixes : \A n \in 1..MaxNumber : \A id \in 1..MaxId :
          (Segments[4] = ToStr(n) /\ url.fragment = p \o ToStr(id))
             => result = LooseExpected(Segments[3], p,
                                       Repo(Segments[2], Segments[1]), n, id)

\* C2 witness: /discussions/{n}#issuecomment-{id} was parsed in loose mode
\* and gave an IssueComment
C2_Witness ==
    /\ UrlDone
    /\ ~settings.require_strict_type
    /\ AllFlagsOn
    /\ NumberedUrl
    /\ Segments[3] = S_discussions
    /\ url.fragment = Tail(F_issuecomment) \o ToStr(1)
    /\ result.kind = "IssueComment"

\* the resource kinds a resource-kind flag governs
KindsOf(f) ==
    CASE f = "issues" -> {"Issue"}
      [] f = "issue_comments" -> {"IssueComment"}
      [] f = "issue_events" -> {"IssueEvent"}
      [] f = "pull_requests" -> {"PullRequest"}
      [] f = "pull_request_comments" -> {"PullRequestComment"}
      [] f = "pull_request_reviews" -> {"PullRequestReview"}
      [] f = "pull_request_review_comments" -> {"PullRequestReviewComment"}
      [] f = "pull_request_events" -> {"PullRequestEvent"}
      [] f = "discussions" -> {"Discussion"}
      [] f = "discussion_comments" -> {"DiscussionComment"}
      [] f = "commits" -> {"Commit"}
      [] f = "commit_comments" -> {"CommitComment"}
      [] f = "releases" -> {"ReleaseTag"}

\* C3: when a resource-kind flag f is false, every URL that gives f's kind
\* with f true gives no match: not that kind, and no other resource either.
C3_DisabledFlagNoMatch ==
    UrlDone =>
       \A f \in ResourceFlags :
          (/\ ~settings[f]
           /\ parse_url(url, [settings EXCEPT ![f] = TRUE]).kind \in KindsOf(f))
          => result = None

\* C4: with every other flag on, switching one flag f off leaves the result
\* unchanged for every URL whose resource kind another flag governs.
C4_FlagsIndependent ==
    UrlDone =>
       \A f \in ResourceFlags :
          LET full == parse_url(url, [settings EXCEPT ![f] = TRUE])
          IN  (/\ ~settings[f]
               /\ \A g \in ResourceFlags \ {f} : settings[g]
               /\ \E g \in ResourceFlags \ {f} : full.kind \in KindsOf(g))
              => result = full

\* C5: every call of parse_url and parse_shorthand returns, a resource or
\* no match; none raises.
C5_Total == pc = "done" => result # ValueError

\* C6: parse_url gives a resource only for an absolute URL whose host (and
\* port) equals an element of settings.domains, and a host added to
\* settings.domains is classified exactly as github.com is.
C6_ExactDomain ==
    UrlDone =>
       /\ result # None =>
             /\ url.absolute
             /\ \E i \in 1..Len(settings.domains) :
                   settings.domains[i] = url.host_port
       /\ (/\ url.absolute
           /\ \E i \in 1..Len(settings.domains) :
                 settings.domains[i] = url.host_port)
          => result = parse_url([url EXCEPT !.host_port = H_github],
                                [settings EXCEPT !.domains = <<H_github>>])

\* C6 witness: a URL on the subdomain api.github.com that would be an Issue
\* on github.com was parsed and gave no match
C6_Witness ==
    /\ UrlDone
    /\ url.absolute
    /\ url.host_port = H_api_github
    /\ Len(Segments) = 4
    /\ parse_url([url EXCEPT !.host_port = H_github], settings).kind = "Issue"
    /\ result = None

\* the URL is exactly /{owner}/{repo}/{keyword}/{number} on github.com, as
\* written, without fragment: valid owner, valid repository, number >= 1
PlainNumberedUrl ==
    /\ url.absolute
    /\ url.host_port = H_github
    /\ url.fragment = <<>>
    /\ Len(url.path) = 4
    /\ IsUsername(url.path[1])
    /\ IsRepositoryName(url.path[2])
    /\ url.path[3] \in Keywords
    /\ IsNumberIn(url.path[4], 1, MaxNumber)

\* the resource of a keyword without fragment
PlainExpected(keyword, repo, number) ==
    IF keyword = S_issues THEN Issue(repo, number)
    ELSE IF keyword = S_pull THEN PullRequest(repo, number)
    ELSE Discussion(repo, number)

\* C7 as stated: with default settings, for every valid owner, every valid
\* repository name and every number >= 1, /{owner}/{repo}/issues/{number}
\* gives Issue, /pull/ gives PullRequest and /discussions/ gives Discussion,
\* with that repo and number.
C7_Original ==
    (UrlDone /\ settings = MatcherSettings /\ PlainNumberedUrl)
    => \A n \in 1..MaxNumber :
          url.path[4] = ToStr(n)
          => result = PlainExpected(url.path[3],
                                    Repo(url.path[2], url.path[1]), n)

\* C7 amended: the same for every valid repository name other than "." and
\* "..", which the URL library removes from the path as dot segments.
C7_NumberedUrls ==
    (/\ UrlDone /\ settings = MatcherSettings /\ PlainNumberedUrl
     /\ url.path[2] \notin {<<".">>, <<".", ".">>})
    => \A n \in 1..MaxNumber :
          url.path[4] = ToStr(n)
          => result = PlainExpected(url.path[3],
                                    Repo(url.path[2], url.path[1]), n)

\* C7 witness: /a-b/r.x/pull/{n} was parsed with default settings and gave
\* a PullRequest
C7_Witness ==
    /\ UrlDone
    /\ settings = MatcherSettings
    /\ PlainNumberedUrl
    /\ url.path[1] = <<"a", "-", "b">>
    /\ url.path[2] = <<"r", ".", "x">>
    /\ url.path[3] = S_pull
    /\ result.kind = "PullRequest"

\* the numeric fields of a resource
NumericFields == {"number", "comment_id", "event_id", "review_id"}

\* C8: every number, comment_id, event_id and review_id of a returned
\* resource is a positive integer.
C8_PositiveIds ==
    pc = "done" =>
       \A fld \in NumericFields \cap DOMAIN result : result[fld] >= 1

\* the URL is /{owner}/{repo}/{keyword}/{number}/commits/{sha}#r{id} with a
\* hexadecimal sha and numbers >= 1, parsed with every flag on
CommitsPage ==
    /\ url.absolute
    /\ url.host_port = H_github
    /\ NumberedUrl
    /\ Len(Segments) = 6
    /\ Segments[5] = S_commits
    /\ Segments[6] # <<>>
    /\ \A i \in 1..Len(Segments[6]) : Segments[6][i] \in hexdigits
    /\ \E id \in 1..MaxId : url.fragment = <<"r">> \o ToStr(id)

\* the URL is /{owner}/{repo}/{keyword}/{number}/files#r{id}
FilesPage ==
    /\ url.absolute
    /\ url.host_port = H_github
    /\ NumberedUrl
    /\ Len(Segments) = 5
    /\ Segments[5] = S_files
    /\ \E id \in 1..MaxId : url.fragment = <<"r">> \o ToStr(id)

\* C9: in loose mode the commits/{sha} and files sub-pages give a
\* PullRequestReviewComment under /issues/ and under /pull/, and no match
\* under /discussions/.
C9_LooseSubPages ==
    (UrlDone /\ ~settings.require_strict_type /\ AllFlagsOn
        /\ (CommitsPage \/ FilesPage))
    => LET repo   == Repo(Segments[2], Segments[1])
           number == PyInt(Segments[4]).val
           id     == PyInt(Tail(url.fragment)).val
       IN  IF Segments[3] = S_discussions THEN result = None
           ELSE IF CommitsPage
           THEN result = PullRequestReviewComment(repo, number, id,
                                                  Segments[6], TRUE, FALSE)
           ELSE result = PullRequestReviewComment(repo, number, id,
                                                  NoSha, FALSE, TRUE)

\* C10: /{owner}/{repo}/pull/{n}/commits/{sha}#r{id} gives, in both modes,
\* the PullRequestReviewComment with the sha as written when the sha is a
\* non-empty text of hexadecimal digits and the id a number, and no match
\* when the sha has a character that is no hexadecimal digit.
C10_CommitsPageSha ==
    (/\ UrlDone /\ AllFlagsOn /\ url.absolute /\ url.host_port = H_github
     /\ NumberedUrl /\ Segments[3] = S_pull
     /\ Len(Segments) = 6 /\ Segments[5] = S_commits
     /\ \E id \in 0..MaxId : url.fragment = <<"r">> \o ToStr(id))
    => IF Segments[6] # <<>>
          /\ \A i \in 1..Len(Segments[6]) : Segments[6][i] \in hexdigits
       THEN result = PullRequestReviewComment(
                         Repo(Segments[2], Segments[1]),
                         PyInt(Segments[4]).val,
                         PyInt(Tail(url.fragment)).val,
                         Segments[6], TRUE, FALSE)
       ELSE result = None

\* the URL is /{owner}/{repo}/{keyword}/{text} on github.com, as written,
\* with a valid owner and repository, whatever its fragment
KeywordUrl ==
    /\ url.absolute
    /\ url.host_port = H_github
    /\ Len(url.path) = 4
    /\ IsUsername(url.path[1])
    /\ IsRepositoryName(url.path[2])
    /\ url.path[3] \in Keywords

\* the text contains no character 0-9
NoAsciiDigit(text) == \A i \in 1..Len(text) : text[i] \notin digits

\* the fragment prefixes of the claim, without the leading #
InvalidFragmentPrefixes ==
    {Tail(F_issuecomment), Tail(F_pullrequestreview),
     Tail(F_discussioncomment), Tail(F_discussion_r), <<"r">>,
     <<"w","h","a","t","e","v","e","r">>}

\* the fragment is one of the claim's prefixes followed by a text without
\* a character 0-9
DigitlessFragment ==
    \E p \in InvalidFragmentPrefixes :
       /\ StartsWith(url.fragment, p)
       /\ NoAsciiDigit(DropPrefix(url.fragment, Len(p)))

\* C11: with default (strict) settings, /{owner}/{repo}/{keyword}/{number}
\* with number >= 1 and a fragment made of one of the prefixes issuecomment-,
\* pullrequestreview-, discussioncomment-, discussion_r, r, whatever and a
\* suffix without a character 0-9 gives no match, and so does a number
\* segment that is no number.
C11_InvalidFragments ==
    (UrlDone /\ settings = MatcherSettings /\ KeywordUrl)
    => /\ (IsNumberIn(url.path[4], 1, MaxNumber) /\ DigitlessFragment)
             => result = None
       /\ (\A i \in 1..Len(url.path[4]) :
              url.path[4][i] \notin digits \cup unicode_decimals)
             => result = None

\* the URL is on github.com and has no fragment, parsed with default settings
NamesUrl ==
    /\ UrlDone
    /\ settings = MatcherSettings
    /\ url.absolute
    /\ url.host_port = H_github
    /\ url.fragment = <<>>

\* what the claim gives for the path segments as written in the URL
NamesExpected(path) ==
    IF Len(path) = 1
    THEN IF IsUsername(path[1]) THEN User(path[1]) ELSE None
    ELSE IF IsUsername(path[1]) /\ IsRepositoryName(path[2])
         THEN Repo(path[2], path[1])
         ELSE None

\* C12 as stated: with default settings a URL with one path segment and no
\* fragment gives User(login=segment) when the segment is a valid username,
\* a URL with two segments gives Repo(name=second, owner=first) when they
\* are a valid username and a valid repository name, and otherwise the
\* result is no match.
C12_Original ==
    (NamesUrl /\ Len(url.path) \in {1, 2}) => result = NamesExpected(url.path)

\* C12 amended: the same of the path segments the URL library reports,
\* that is after it has removed the dot segments "." and ".." from the path.
C12_UserAndRepo ==
    (NamesUrl /\ Len(Segments) \in {1, 2}) => result = NamesExpected(Segments)

\* C12 witness: /a-b/r.x was parsed with default settings and gave the Repo
\* of name r.x and owner a-b
C12_Witness ==
    /\ NamesUrl
    /\ url.path = << <<"a", "-", "b">>, <<"r", ".", "x">> >>
    /\ result = Repo(<<"r", ".", "x">>, <<"a", "-", "b">>)

\* the URL is /{owner}/{repo}/... on github.com, as written, with a valid
\* owner and repository and at least a third segment, parsed with every
\* flag on
RepoPageUrl ==
    /\ UrlDone
    /\ AllFlagsOn
    /\ url.absolute
    /\ url.host_port = H_github
    /\ Len(url.path) >= 3
    /\ IsUsername(url.path[1])
    /\ IsRepositoryName(url.path[2])
    /\ url.path[2] \notin {<<".">>, <<".", ".">>}

\* C13: with every flag on, in both modes, /commit/{sha} gives Commit(repo,
\* sha), /commit/{sha}#commitcomment-{id} with a numeric id gives
\* CommitComment(repo, sha, id), /releases/tag/{tag} gives ReleaseTag(repo,
\* tag), and /releases alone, /releases/tag without a tag and any third
\* segment other than issues, pull, discussions, commit and releases give
\* no match.
C13_CommitsAndReleases ==
    RepoPageUrl =>
       LET repo == Repo(url.path[2], url.path[1])
           rest == SubSeq(url.path, 3, Len(url.path))
       IN  /\ (Len(rest) = 2 /\ rest[1] = S_commit /\ url.fragment = <<>>)
                 => result = Commit(repo, rest[2])
           /\ (Len(rest) = 2 /\ rest[1] = S_commit)
                 => \A id \in 0..MaxId :
                       url.fragment = Tail(F_commitcomment) \o ToStr(id)
                          => result = CommitComment(repo, rest[2], id)
           /\ (/\ Len(rest) = 3 /\ rest[1] = S_releases /\ rest[2] = S_tag
               /\ url.fragment = <<>>)
                 => result = ReleaseTag(repo, rest[3])
           /\ (rest = <<S_releases>> \/ rest = <<S_releases, S_tag>>)
                 => result = None
           /\ rest[1] \notin Keywords \cup {S_commit, S_releases}
                 => result = None

\* C14: with every flag on, /{owner}/{repo}/issues/{n}#event-{id} gives
\* IssueEvent(number=n, event_id=id) and /{owner}/{repo}/pull/{n}#event-{id}
\* gives PullRequestEvent(number=n, event_id=id), in strict mode and in
\* loose mode alike.
C14_EventsInBothModes ==
    (/\ UrlDone /\ AllFlagsOn /\ KeywordUrl
     /\ url.path[2] \notin {<<".">>, <<".", ".">>}
     /\ url.path[3] \in {S_issues, S_pull})
    => \A n \in 1..MaxNumber : \A id \in 1..MaxId :
          (url.path[4] = ToStr(n) /\ url.fragment = Tail(F_event) \o ToStr(id))
             => LET repo == Repo(url.path[2], url.path[1])
                IN  result = IF url.path[3] = S_issues
                             THEN IssueEvent(repo, n, id)
                             ELSE PullRequestEvent(repo, n, id)

\* a parse_shorthand call has returned
ShorthandDone == pc = "done" /\ op = "parse_shorthand"

\* the explored owners that satisfy the username rules
ValidOwnerTexts == {o \in ShorthandOwnerTexts : IsUsername(o)}

\* the explored repository parts that satisfy the repository-name rules
ValidRepoTexts == {r \in ShorthandRepoTexts : IsRepositoryName(r)}

\* the shorthand {owner}/{repo}{suffix}
ShorthandOf(owner, repo, suffix) == owner \o <<"/">> \o repo \o suffix

\* C15: with default settings, for a valid owner, a valid repository name
\* and a number >= 1, parse_shorthand("{owner}/{repo}") gives Repo(name=repo,
\* owner=owner) and parse_shorthand("{owner}/{repo}#{number}") gives
\* NumberedResource(repo=Repo(name=repo, owner=owner), number=number), no
\* Issue, PullRequest or Discussion.
C15_ShorthandRepoAndNumber ==
    (ShorthandDone /\ settings = MatcherSettings)
    => \A o \in ValidOwnerTexts : \A r \in ValidRepoTexts :
          /\ shorthand = ShorthandOf(o, r, <<>>) => result = Repo(r, o)
          /\ \A n \in 1..MaxNumber :
                shorthand = ShorthandOf(o, r, <<"#">> \o ToStr(n))
                   => result = NumberedResource(Repo(r, o), n)

\* C15 witness: a-b/r.x#1 was parsed with default settings and gave the
\* NumberedResource of number 1 in the Repo of name r.x and owner a-b
C15_Witness ==
    /\ ShorthandDone
    /\ settings = MatcherSettings
    /\ shorthand = ShorthandOf(<<"a", "-", "b">>, <<"r", ".", "x">>,
                               <<"#">> \o ToStr(1))
    /\ result = NumberedResource(Repo(<<"r", ".", "x">>, <<"a", "-", "b">>), 1)

\* the refs of the claim: non-empty, made of letters, digits and - . _ /,
\* not starting or ending with / or ., containing neither .. nor //
PlainRef(text) ==
    /\ text # <<>>
    /\ \A i \in 1..Len(text) :
          text[i] \in ascii_letters \cup digits \cup {"-", ".", "_", "/"}
    /\ text[1] \notin {"/", "."}
    /\ text[Len(text)] \notin {"/", "."}
    /\ ~Contains(text, <<".", ".">>)
    /\ ~Contains(text, <<"/", "/">>)

\* no /-separated component of the ref starts with a dot, ends with a dot
\* or ends with .lock
PlainComponents(text) ==
    \A i \in 1..Len(text) :
       /\ (text[i] = "." /\ i > 1) => text[i - 1] # "/"
       /\ (text[i] = "." /\ i < Len(text)) => text[i + 1] # "/"
       /\ (i + 4 <= Len(text)
           /\ SubSeq(text, i, i + 4) = <<".", "l", "o", "c", "k">>)
          => (i + 4 < Len(text) /\ text[i + 5] # "/")

ValidSuffixes ==
    {<<>>} \cup {<<"#">> \o ToStr(n) : n \in 1..MaxNumber}
           \cup {<<"@">> \o t : t \in {x \in RefTexts :
                                          PlainRef(x) /\ PlainComponents(x)}}

\* C17: for a shorthand r + s without owner prefix, r a repository name and
\* s empty, #number or @ref (refs with a slash included),
\* parse_shorthand(r + s, default_user=u) gives what
\* parse_shorthand(u + "/" + r + s) gives, and no match when default_user
\* is None.
C17_DefaultUser ==
    ShorthandDone
    => \A r \in ValidRepoTexts : \A s \in ValidSuffixes :
          shorthand = r \o s
             => IF default_user = NoUser THEN result = None
                ELSE result = parse_shorthand(
                                  ShorthandOf(default_user, r, s),
                                  NoUser, settings)

\* the Repo values a result contains: the result itself or its repo field
ReposOf(res) ==
    (IF res.kind = "Repo" THEN {res} ELSE {})
        \cup (IF "repo" \in DOMAIN res THEN {res.repo} ELSE {})

\* C18: every Repo contained in a result of parse_url or parse_shorthand
\* has an owner that satisfies the username rules and a name that satisfies
\* the repository-name rules; so parse_shorthand gives no match for an empty
\* owner or repo part, an owner with . or _, with a leading or trailing
\* hyphen or of more than 39 characters, and a repo of more than 100
\* characters.
C18_ValidRepos ==
    pc = "done"
    => \A x \in ReposOf(result) :
          IsUsername(x.owner) /\ IsRepositoryName(x.name)

\* the texts the claim lists after the #: the empty text, "0", "@", a
\* negative number, a non-empty text without a character 0-9
NoNumber(text) ==
    \/ text = <<>>
    \/ text = <<"0">>
    \/ text = <<"@">>
    \/ /\ Len(text) >= 2
       /\ text[1] = "-"
       /\ \A i \in 2..Len(text) : text[i] \in digits
    \/ NoAsciiDigit(text)

\* C19: for a valid owner and repo, parse_shorthand("{owner}/{repo}#{x}")
\* gives no match when x is empty, "0", "@", a negative number or a
\* non-empty text without a character 0-9, and so does
\* parse_shorthand("{owner}/{repo}@").
C19_InvalidNumber ==
    ShorthandDone
    => \A o \in ValidOwnerTexts : \A r \in ValidRepoTexts :
          /\ \A x \in NumberTexts \cup {<<>>, <<"@">>} :
                (NoNumber(x) /\ shorthand = ShorthandOf(o, r, <<"#">> \o x))
                   => result = None
          /\ shorthand = ShorthandOf(o, r, <<"@">>) => result = None

\* the flag that gates the shape of a shorthand: short_repo without # or @,
\* short_numberables when # comes first, short_refs when @ comes first
ShapeFlag(text) ==
    LET mark == FirstIn(text, {"#", "@"})
    IN  IF mark = 0 THEN "short_repo"
        ELSE IF text[mark] = "#" THEN "short_numberables"
        ELSE "short_refs"

ListedSequences ==
    {<<".", ".">>, <<"~">>, <<"^">>, <<":">>, <<"?">>, <<"*">>, <<"[">>,
     <<"\\">>, <<"@", "{">>, <<"/", "/">>, <<"/", ".">>}

\* the ref satisfies every rule the claim lists
ListedRefRules(ref) ==
    /\ ref # <<>>
    /\ ref # <<"@">>
    /\ ref[1] \notin {".", "/"}
    /\ ref[Len(ref)] \notin {".", "/"}
    /\ \A q \in ListedSequences : ~Contains(ref, q)
    /\ \A i \in 1..Len(ref) : ref[i] \notin whitespace
    /\ \A i \in 1..Len(ref) :
          (i + 4 <= Len(ref)
           /\ SubSeq(ref, i, i + 4) = <<".", "l", "o", "c", "k">>)
          => (i + 4 < Len(ref) /\ ref[i + 5] # "/")

\* C21: _validate_ref(ref) is true exactly when ref satisfies every listed
\* rule (non-empty, not "@", no . or / first or last, none of the listed
\* sequences, no whitespace, no component ending with .lock or starting
\* with a dot), and parse_shorthand gives no match for owner/repo@ref with
\* a rejected ref and the ref resource otherwise.
C21_ValidateRef ==
    (ShorthandDone /\ settings = MatcherSettings)
    => \A o \in ValidOwnerTexts : \A r \in ValidRepoTexts : \A t \in RefTexts :
          shorthand = ShorthandOf(o, r, <<"@">> \o t)
             => /\ _validate_ref(t) = ListedRefRules(t)
                /\ result = IF ListedRefRules(t) THEN Ref(Repo(r, o), t)
                            ELSE None

BoolFields == ResourceFlags \cup ShorthandFlags \cup {"require_strict_type"}

\* C24: every field of MatcherSettings declared bool is False in the
\* settings none() returns: the resource-kind flags, the shorthand flags and
\* require_strict_type.
C24_NoneAllFalse ==
    settings = none => \A f \in BoolFields : ~settings[f]

\* C25: every PullRequestReviewComment parse_url returns, in either mode,
\* has commit_page and files_page not both true and a sha exactly when
\* commit_page is true: #discussion_r{id} gives no sha and both page fields
\* false, /files#r{id} gives no sha, commit_page false and files_page true,
\* /commits/{sha}#r{id} gives the sha, commit_page true and files_page
\* false.
C25_ReviewCommentPages ==
    (op = "parse_url" /\ pc \in {"done", "again"}
        /\ result.kind = "PullRequestReviewComment")
    => /\ ~(result.commit_page /\ result.files_page)
       /\ (result.sha # NoSha) <=> result.commit_page
       /\ \/ /\ Len(Segments) = 4
             /\ StartsWith(url.fragment, Tail(F_discussion_r))
             /\ result.sha = NoSha
             /\ ~result.commit_page /\ ~result.files_page
          \/ /\ Len(Segments) = 5
             /\ Segments[5] = S_files
             /\ StartsWith(url.fragment, <<"r">>)
             /\ result.sha = NoSha
             /\ ~result.commit_page /\ result.files_page
          \/ /\ Len(Segments) = 6
             /\ Segments[5] = S_commits
             /\ StartsWith(url.fragment, <<"r">>)
             /\ result.sha = Segments[6]
             /\ result.commit_page /\ ~result.files_page

\* C25 witness: /pull/{n}/commits/{sha}#r{id} was parsed in strict mode and
\* gave a PullRequestReviewComment with the sha and commit_page true
C25_Witness ==
    /\ UrlDone
    /\ settings.require_strict_type
    /\ CommitsPage
    /\ result.kind = "PullRequestReviewComment"
    /\ result.sha = SHA_hex
    /\ result.commit_page

\* the fragment is r{id} with a number id
ReviewFragment ==
    /\ StartsWith(url.fragment, <<"r">>)
    /\ PyInt(Tail(url.fragment)).ok

\* C26: in strict and in loose mode a URL under /issues/{n}, /pull/{n} or
\* /discussions/{n} gives no match when the segments after the number are
\* other than exactly files or exactly commits/{sha}, /commits without sha
\* included, and when a files or commits/{sha} sub-page has no r{id}
\* fragment.
C26_NoExtraSegments ==
    (/\ op = "parse_url" /\ pc \in {"done", "again"}
     /\ Len(Segments) >= 5
     /\ Segments[3] \in Keywords)
    => LET tail == SubSeq(Segments, 5, Len(Segments))
       IN  /\ ~(tail = <<S_files>> \/ (Len(tail) = 2 /\ tail[1] = S_commits))
                 => result = None
           /\ ~ReviewFragment => result = None

\* the five path keywords with a base flag
BaseKeywords == {S_issues, S_pull, S_discussions, S_commit, S_releases}

\* the base flag of a path keyword
BaseFlag(keyword) ==
    IF keyword = S_issues THEN "issues"
    ELSE IF keyword = S_pull THEN "pull_requests"
    ELSE IF keyword = S_discussions THEN "discussions"
    ELSE IF keyword = S_commit THEN "commits"
    ELSE "releases"

\* the resource kind the base flag of a path keyword governs
BaseKind(keyword) ==
    IF keyword = S_issues THEN "Issue"
    ELSE IF keyword = S_pull THEN "PullRequest"
    ELSE IF keyword = S_discussions THEN "Discussion"
    ELSE IF keyword = S_commit THEN "Commit"
    ELSE "ReleaseTag"

\* _supported_resource_types() is exactly the set of keywords whose base
\* flag is true
SupportedIsBaseFlags ==
    \A k \in BaseKeywords :
       k \in _supported_resource_types(settings) <=> settings[BaseFlag(k)]

\* the URL has a third path segment that is one of the five keywords and is
\* not in _supported_resource_types()
UnsupportedKeywordUrl ==
    /\ UrlDone
    /\ Len(Segments) >= 3
    /\ Segments[3] \in BaseKeywords
    /\ Segments[3] \notin _supported_resource_types(settings)

TableUrl ==
    LET paf == PathAndFragment(url)
    IN  /\ Len(paf) >= 4
        /\ paf[3] \in Keywords
        /\ _valid_user(paf[1])
        /\ _valid_repository(paf[2])
        /\ PyInt(paf[4]).ok

TableRepo == Repo(PathAndFragment(url)[2], PathAndFragment(url)[1])

TableNumber == PyInt(PathAndFragment(url)[4]).val

TableRest ==
    SubSeq(PathAndFragment(url), 5, Len(PathAndFragment(url)))

StrictCaseOfUrl(i) ==
    StrictCase(i, url, settings, TableRepo, TableNumber,
               <<PathAndFragment(url)[3]>> \o TableRest)

LooseCaseOfUrl(i) ==
    LooseCase(i, url, settings, TableRepo, PathAndFragment(url)[3],
              TableNumber, TableRest)

\* the cases whose pattern and guard the URL and the settings satisfy
StrictApplying == {i \in StrictCases : StrictCaseOfUrl(i).applies}

LooseApplying == {i \in LooseCases : LooseCaseOfUrl(i).applies}

\* the sub-page cases of the two tables
StrictSubPageCases == {7, 8}

LooseSubPageCases == {6, 7}

\* C28: for every URL that reaches the rule tables and every settings value,
\* at most one rule of the strict table and at most one rule of the loose
\* table has its pattern and guard satisfied (the second
\* ["issues", fragment] / #issue- case of the strict source repeats the first
\* and counts as the same rule), so whichever applying rule is taken gives
\* the result the source order gives, which is the result of the call; and a
\* /pull/{n}/commits/{sha}#r{id} or /pull/{n}/files#r{id} URL is matched by
\* no rule other than a sub-page rule.
C28_RulePrecedence ==
    TableUrl =>
        /\ \A i, j \in StrictApplying : i = j \/ {i, j} = {2, 9}
        /\ Cardinality(LooseApplying) <= 1
        /\ \A i \in StrictApplying :
              StrictCaseOfUrl(i).result = _parse_strict_numberable_url(url, settings)
        /\ \A i \in LooseApplying :
              LooseCaseOfUrl(i).result = _parse_loose_numberable_url(url, settings)
        /\ StrictApplying = {} => _parse_strict_numberable_url(url, settings) = None
        /\ LooseApplying = {} => _parse_loose_numberable_url(url, settings) = None
        /\ (UrlDone /\ url.absolute /\ InDomains(url.host_port, settings.domains)) =>
              IF settings.require_strict_type
              THEN /\ \A i \in StrictApplying : result = StrictCaseOfUrl(i).result
                   /\ StrictApplying = {} => result = None
              ELSE /\ \A i \in LooseApplying : result = LooseCaseOfUrl(i).result
                   /\ LooseApplying = {} => result = None
        /\ ((CommitsPage \/ FilesPage) /\ Segments[3] = S_pull) =>
              /\ StrictApplying \subseteq StrictSubPageCases
              /\ LooseApplying \subseteq LooseSubPageCases

\* a finished call on a pull-request sub-page URL that a sub-page rule of
\* each table takes, and one on a fragment URL that a fragment rule takes
C28_Witness ==
    /\ UrlDone
    /\ TableUrl
    /\ result.kind = "PullRequestReviewComment"
    /\ CommitsPage
    /\ StrictApplying = {7}
    /\ LooseApplying = {6}

\* what parse_url returns for the URL under the settings with
\* require_strict_type set and cleared
StrictResult == parse_url(url, WithMode(settings, TRUE))

LooseResult == parse_url(url, WithMode(settings, FALSE))

NoResource == {"None", "ValueError", "pending"}

EventKinds == {"IssueEvent", "PullRequestEvent"}

\* C29: with every feature flag on, whenever the strict call returns a
\* resource other than an IssueEvent or PullRequestEvent the loose call
\* returns an equal resource, so the two modes differ only where strict
\* returns no match (or an event).
C29_LooseExtendsStrict ==
    (UrlDone /\ AllFlagsOn) =>
        /\ result = IF settings.require_strict_type THEN StrictResult
                    ELSE LooseResult
        /\ StrictResult.kind \notin NoResource \cup EventKinds =>
              LooseResult = StrictResult
        /\ LooseResult # StrictResult =>
              StrictResult.kind \in {"None"} \cup EventKinds

\* a finished loose call returning the review comment the strict call
\* returns, and URLs on which the two modes differ
C29_Witness ==
    /\ UrlDone
    /\ AllFlagsOn
    /\ ~settings.require_strict_type
    /\ result.kind = "PullRequestReviewComment"
    /\ result.sha # NoSha
    /\ result = StrictResult

\* a finished parse_url call on a URL of an accepted domain
AcceptedUrl ==
    /\ UrlDone
    /\ url.absolute
    /\ InDomains(url.host_port, settings.domains)

\* every resource-kind flag is off, as in MatcherSettings.none()
NoFlagOn == \A f \in ResourceFlags : ~settings[f]

\* C30 as stated: under every flag combination a URL with one path segment
\* that is a valid username gives User and a URL with two path segments that
\* are a valid username and a valid repository name gives Repo, and under
\* none() every URL with three or more path segments gives no match.
C30_Original ==
    AcceptedUrl =>
        /\ (Len(url.path) = 1 /\ IsUsername(url.path[1]))
              => result = User(url.path[1])
        /\ (/\ Len(url.path) = 2 /\ IsUsername(url.path[1])
            /\ IsRepositoryName(url.path[2]))
              => result = Repo(url.path[2], url.path[1])
        /\ (NoFlagOn /\ Len(url.path) >= 3) => result = None

\* C30 amended: the same of a URL without fragment and of the path segments
\* the URL library reports, that is after it has removed the dot segments
\* "." and ".." from the path.
C30_UserAndRepoUngated ==
    AcceptedUrl =>
        /\ (/\ url.fragment = <<>> /\ Len(Segments) = 1
            /\ IsUsername(Segments[1]))
              => result = User(Segments[1])
        /\ (/\ url.fragment = <<>> /\ Len(Segments) = 2
            /\ IsUsername(Segments[1]) /\ IsRepositoryName(Segments[2]))
              => result = Repo(Segments[2], Segments[1])
        /\ (NoFlagOn /\ Len(Segments) >= 3) => result = None

\* C30 witness: /o/r/commit/{sha} was parsed under none() and gave no match
C30_Witness ==
    /\ AcceptedUrl
    /\ settings = none
    /\ Segments = <<O_o, R_r, S_commit, SHA_hex>>
    /\ url.fragment = <<>>
    /\ result = None
====
